---- MODULE Spec2Model ----
(***************************************************************************)
(* Model of the ticket aggregation engine of update_dashboard.py:          *)
(* get_ticket_data and the functions it drives (zendesk_request,           *)
(* get_group_ids, fetch_tickets_for_range, enrich_tickets, get_user_name,  *)
(* get_org_name, get_week_range, get_alltime_range, get_weekly_ranges).    *)
(*                                                                         *)
(* Dates are day numbers counted from 2026-01-01 (day 0, a Thursday); the  *)
(* '%Y-%m-%d' strings the code builds order exactly as the day numbers do. *)
(* Percentages are held in tenths (66.7 is 667).                           *)
(***************************************************************************)
EXTENDS Integers, Sequences, FiniteSets, TLC

\* ------------------------------------------------------------------------
\* Bounds of the model
\* ------------------------------------------------------------------------
\* longest backing store enumerated ticket by ticket
MaxTickets == 2
\* most full pages a paged backing store holds
MaxFullPages == 2
\* most failing API requests in one behaviour
MaxFailures == 1
\* most tickets created upstream while a behaviour runs
MaxStoreChanges == 1
\* most invocations of get_ticket_data in one process
MaxRuns == 2

\* ------------------------------------------------------------------------
\* Program constants
\* ------------------------------------------------------------------------
BETA_TAGS == <<"ux_assets", "ux_feedback", "ux_login", "ux_redirect">>

TARGET_GROUPS == {"Billing", "CX Success", "Distribution", "ENG - Support"}

\* BETA_RELEASE_DATE = '2026-01-21'
BETA_RELEASE_DATE == 20

\* end_date = datetime(2026, 3, 8)
HORIZON_END == 66

\* per_page=100 in the search request, len(tickets) < 100 in the loop
PER_PAGE == 100

\* ------------------------------------------------------------------------
\* JSON values: None and an absent key
\* ------------------------------------------------------------------------
NULL == -1
MISSING == -2

Range(s) == {s[i] : i \in DOMAIN s}

Min(a, b) == IF a <= b THEN a ELSE b

\* Python str() of a group id, of None and of the '' default of dict.get
PyStr(v) ==
    CASE v = MISSING -> ""
      [] v = NULL -> "None"
      [] v = 11 -> "11"
      [] v = 12 -> "12"
      [] v = 13 -> "13"
      [] OTHER -> "?"

\* variant: the 'if not user_id' / 'if not org_id' guard is absent
Falsy_NoGuard(v) == FALSE

\* Python truth value of an id: None, an absent key and 0 are falsy
Falsy(v) == v \in {NULL, MISSING, 0}

\* datetime.weekday(): Monday = 0; day 0 (2026-01-01) is a Thursday
Weekday(d) == (d + 3) % 7

\* ------------------------------------------------------------------------
\* Upstream data the API serves
\* ------------------------------------------------------------------------
\* A ticket of search.json: the fields the engine reads
Ticket(id, group_id, tags, requester_id, organization_id, created) ==
    [id |-> id, group_id |-> group_id, tags |-> tags,
     requester_id |-> requester_id, organization_id |-> organization_id,
     created |-> created]

\* Ticket templates [group_id, tags, requester_id, organization_id, created]:
\* target group / other group / null group / no group key, tracked and
\* untracked tags, present and absent requester and organization, created
\* before the release (day 19), in the release week (22) and in the week of
\* Feb 2 (33, 36)
TicketKinds ==
    << <<11, <<"ux_login", "ux_assets">>, 501, 701, 33>>,
       <<11, <<"billing">>, 502, NULL, 22>>,
       <<12, <<"ux_feedback">>, 501, 701, 36>>,
       <<NULL, <<"vip", "ux_redirect">>, NULL, MISSING, 33>>,
       <<MISSING, <<>>, MISSING, 702, 19>> >>

KindTicket(id, k) ==
    Ticket(id, TicketKinds[k][1], TicketKinds[k][2], TicketKinds[k][3],
           TicketKinds[k][4], TicketKinds[k][5])

\* every store of at most MaxTickets tickets, ticket i carrying id i
SmallStores ==
    UNION {{[i \in 1..n |-> KindTicket(i, ks[i])] :
               ks \in [1..n -> DOMAIN TicketKinds]} : n \in 0..MaxTickets}

\* the end-to-end scenario: three tickets of a target group in one window,
\* two of them carrying a tracked tag
ScenarioStore ==
    << Ticket(1, 11, <<"ux_login">>, 501, 701, 33),
       Ticket(2, 11, <<"other">>, 502, NULL, 33),
       Ticket(3, 13, <<"ux_assets", "vip">>, NULL, 701, 34) >>

\* a store of n tickets created on day 22 (Jan 23), cycling through a target
\* group, a foreign group and no group, a few of them tagged and with a
\* requester
PagedStore(n) ==
    [i \in 1..n |-> Ticket(i, TicketKinds[(i % 3) + 2][1],
                           IF i % 40 = 0 THEN <<"ux_assets">> ELSE <<"billing">>,
                           IF i % 80 = 0 THEN 501 ELSE NULL,
                           NULL, 22)]

\* result counts around the page boundaries: k full pages and 0, 1 or
\* PER_PAGE - 1 more
PagedSizes ==
    UNION {{k * PER_PAGE, k * PER_PAGE + 1, k * PER_PAGE + PER_PAGE - 1} :
               k \in 1..MaxFullPages}

\* groups.json directories: one target group among others, and no target
\* group at all
GroupDirs ==
    { << [id |-> 11, name |-> "Billing"], [id |-> 12, name |-> "Sales"] >>,
      << [id |-> 12, name |-> "Sales"] >> }

\* a directory listing two target groups, in another order than their ids
TwoGroupsDir ==
    << [id |-> 12, name |-> "Sales"], [id |-> 13, name |-> "CX Success"],
       [id |-> 11, name |-> "Billing"] >>

\* names users/<id>.json and organizations/<id>.json serve
UserName(id) == IF id = 501 THEN "Ann" ELSE "Bob"
OrgName(id) == IF id = 701 THEN "Acme" ELSE "Globex"

\* values of datetime.now(): Jan 16 (before the release week), Feb 5 (a
\* Thursday inside the horizon), Feb 8 (a Sunday), Mar 12 (after the horizon)
Todays == {15, 35, 38, 70}

\* ------------------------------------------------------------------------
\* The API client and the upstream endpoints
\* ------------------------------------------------------------------------
\* variant: the status is not checked and the body is returned regardless
ZendeskRequest_Unchecked(ok, body) == [has |-> TRUE, val |-> body]

\* zendesk_request: the parsed body, or {} after any exception (transport
\* error, raise_for_status, JSON decoding).  has = FALSE is the {} result.
ZendeskRequest(ok, body) ==
    IF ok THEN [has |-> TRUE, val |-> body] ELSE [has |-> FALSE, val |-> <<>>]

\* result.get(key, default) on the one key the endpoint's body carries
Get(result, default) == IF result.has THEN result.val ELSE default

\* search.json?query=type:ticket created>=start created<=end : every ticket
\* of the store created in the closed interval, in store order
SearchResults(st, start, end) ==
    SelectSeq(st, LAMBDA t : start <= t.created /\ t.created <= end)

\* ...&per_page=100&page=p : the p-th slice of PER_PAGE results
SearchPage(st, start, end, p) ==
    LET res == SearchResults(st, start, end)
        lo == (p - 1) * PER_PAGE + 1
        hi == Min(p * PER_PAGE, Len(res))
    IN  IF lo > hi THEN <<>> ELSE SubSeq(res, lo, hi)

\* ------------------------------------------------------------------------
\* Pure functions of update_dashboard.py
\* ------------------------------------------------------------------------
\* get_group_ids, lines 87-91: str(id) of every group whose name is a target
GroupIdsOf(groups) ==
    LET kept == SelectSeq(groups, LAMBDA g : g.name \in TARGET_GROUPS)
    IN  [i \in 1..Len(kept) |-> PyStr(kept[i].id)]

\* variant: a single GET, no second page is ever requested
NextPageWanted_FirstPageOnly(tickets) == FALSE

\* variant: only an empty page ends the loop
NextPageWanted_NoShortBreak(tickets) == tickets # <<>>

\* the loop goes on to the next page: neither 'not tickets' nor
\* 'len(tickets) < 100' broke out of it
NextPageWanted(tickets) == tickets # <<>> /\ ~(Len(tickets) < PER_PAGE)

\* variant: the filter is applied even to an empty id set
ApplyFilter_FailClosed(tickets, gids) ==
    SelectSeq(tickets, LAMBDA t : PyStr(t.group_id) \in gids)

\* variant: a non-empty id set also lets tickets without a group through
ApplyFilter_KeepsUngrouped(tickets, gids) ==
    IF gids # {}
    THEN SelectSeq(tickets, LAMBDA t : \/ PyStr(t.group_id) \in gids
                                       \/ t.group_id \in {NULL, MISSING})
    ELSE tickets

\* filter by target groups
ApplyFilter(tickets, gids) ==
    IF gids # {}
    THEN SelectSeq(tickets, LAMBDA t : PyStr(t.group_id) \in gids)
    ELSE tickets

\* variant: only the ticket's first tag is looked at
BetaTickets_FirstTagOnly(filtered) ==
    SelectSeq(filtered,
              LAMBDA t : t.tags # <<>> /\ t.tags[1] \in Range(BETA_TAGS))

\* beta-tagged tickets
BetaTickets(filtered) ==
    SelectSeq(filtered,
              LAMBDA t : \E i \in DOMAIN BETA_TAGS : BETA_TAGS[i] \in Range(t.tags))

\* [tag for tag in ticket.get('tags', []) if tag in BETA_TAGS]
BetaTagsOnTicket(t) == SelectSeq(t.tags, LAMBDA tag : tag \in Range(BETA_TAGS))

\* variant: the percentage is cut to one decimal instead of rounded
Percentage_Truncated(beta, total) ==
    IF total > 0 THEN (1000 * beta) \div total ELSE 0

\* round(beta / total * 100, 1) if total > 0 else 0, in tenths.  The float
\* quotient is rounded to the nearest tenth; on an exact tie CPython answers
\* the even tenth, except where the float product misses the tie: 23/80
\* gives 28.7, 49/80 gives 61.3 and 51/80 gives 63.7 (checked against
\* CPython for every total up to 400).
Percentage(beta, total) ==
    IF total > 0
    THEN LET q == (1000 * beta) \div total
             r == (1000 * beta) % total
         IN  IF 2 * r > total THEN q + 1
             ELSE IF 2 * r < total THEN q
             ELSE IF 80 * beta = 23 * total THEN 287
             ELSE IF 80 * beta = 49 * total THEN 613
             ELSE IF 80 * beta = 51 * total THEN 637
             ELSE IF q % 2 = 1 THEN q + 1 ELSE q
    ELSE 0

\* variant: the week's window is today alone
WeekRange_TodayOnly(now) == <<now, now>>

\* get_week_range: Monday of today's week through today
WeekRange(now) == <<now - Weekday(now), now>>

\* get_alltime_range: release date through today
AlltimeRange(now) == <<BETA_RELEASE_DATE, now>>

\* variant: a week counts as future as soon as its Sunday lies after today
RECURSIVE WeeksFrom_CurrentWeekFuture(_, _)
WeeksFrom_CurrentWeekFuture(current_monday, now) ==
    IF current_monday <= HORIZON_END
    THEN <<[start |-> current_monday,
            end |-> current_monday + 6,
            is_future |-> current_monday + 6 > now]>>
         \o WeeksFrom_CurrentWeekFuture(current_monday + 7, now)
    ELSE <<>>

\* variant: each week is put in front of the list instead of appended
RECURSIVE WeeksFrom_Reversed(_, _)
WeeksFrom_Reversed(current_monday, now) ==
    IF current_monday <= HORIZON_END
    THEN WeeksFrom_Reversed(current_monday + 7, now)
         \o <<[start |-> current_monday,
               end |-> current_monday + 6,
               is_future |-> current_monday > now]>>
    ELSE <<>>

\* datetime comparison week_end > today and current_monday > today: both
\* left sides are midnights, so each holds exactly when the date is later
\* than today's date
RECURSIVE WeeksFrom(_, _)
WeeksFrom(current_monday, now) ==
    IF current_monday <= HORIZON_END
    THEN <<[start |-> current_monday,
            end |-> current_monday + 6,
            is_future |-> current_monday > now]>>
         \o WeeksFrom(current_monday + 7, now)
    ELSE <<>>

\* variant: the weeks start on the release date, not on its week's Monday
WeeklyRanges_FromRelease(now) == WeeksFrom(BETA_RELEASE_DATE, now)

\* get_weekly_ranges: Monday..Sunday entries from the Monday of the release
\* week while the Monday is on or before the end date ('label' is the start
\* date in another format and is left out; display_end is never used)
WeeklyRanges(now) ==
    WeeksFrom(BETA_RELEASE_DATE - Weekday(BETA_RELEASE_DATE), now)

\* ------------------------------------------------------------------------
\* State
\* ------------------------------------------------------------------------
VARIABLES
    store,              \* upstream tickets, in the order search.json lists them
    groupsDir,          \* upstream groups.json listing
    today,              \* date of datetime.now()
    failuresLeft,       \* failing requests the behaviour may still see
    changesLeft,        \* upstream ticket creations the behaviour may still see
    runsLeft,           \* invocations of get_ticket_data still to come
    user_cache,         \* module global: requester id -> name
    org_cache,          \* module global: organization id -> name
    group_ids_cache,    \* module global: None, or the list of group id strings
    pc,                 \* position inside get_ticket_data
    group_ids,          \* set(get_group_ids())
    week_range,         \* week_start, week_end
    alltime_range,      \* alltime_start, alltime_end
    f_start, f_end,     \* arguments of the running fetch_tickets_for_range
    page,               \* its page counter
    all_tickets,        \* its accumulated list
    week_filtered, week_beta, week_beta_details,
    alltime_filtered, alltime_beta, alltime_beta_details,
    filtered, beta,     \* result of the history loop's latest fetch
    ei,                 \* position of enrich_tickets in its ticket list
    weekly_ranges, wi,  \* the history loop's list and position
    weekly_data,        \* history entries built so far
    report,             \* <<>> or <<the dict get_ticket_data returned>>
    calls,              \* requests issued by the current invocation, in order
    m_pc,               \* position inside send_weekly_summary.main
    test_mode,          \* its argument
    service,            \* whether get_gmail_service returned a service
    data,               \* <<>> or <<the dict main works with>>
    subject,            \* <<>> or the pair get_week_dates returned
    si,                 \* position of the running recipient loop
    sent,               \* send_email calls made, in order
    all_success,        \* main's flag
    m_result            \* <<>> or <<the value main returned>>

envVars == <<store, groupsDir, today>>
budgetVars == <<failuresLeft, changesLeft, runsLeft>>
cacheVars == <<user_cache, org_cache, group_ids_cache>>
fetchVars == <<f_start, f_end, page, all_tickets>>
weekVars == <<week_filtered, week_beta, week_beta_details>>
alltimeVars == <<alltime_filtered, alltime_beta, alltime_beta_details>>
histVars == <<filtered, beta, weekly_ranges, wi, weekly_data>>
mailVars == <<m_pc, test_mode, service, data, subject, si, sent, all_success,
              m_result>>
vars == <<store, groupsDir, today, failuresLeft, changesLeft, runsLeft,
          user_cache, org_cache, group_ids_cache, pc, group_ids, week_range,
          alltime_range, f_start, f_end, page, all_tickets,
          week_filtered, week_beta, week_beta_details,
          alltime_filtered, alltime_beta, alltime_beta_details,
          filtered, beta, ei, weekly_ranges, wi, weekly_data, report, calls,
          m_pc, test_mode, service, data, subject, si, sent, all_success,
          m_result>>

EmptyCache == [x \in {} |-> ""]
NoGroupIds == [set |-> FALSE, val |-> <<>>]

\* one issued request: endpoint, its key (id or window), page, outcome and
\* the number of results the caller read from the answer
Call(ep, a, b, p, ok, n) ==
    [ep |-> ep, a |-> a, b |-> b, page |-> p, ok |-> ok, n |-> n]

Cost(ok) == IF ok THEN 0 ELSE 1

\* state after the module is imported (lines 33-35), before any call
EngineStart(st, dir, now, nf, nc, nr) ==
    /\ store = st /\ groupsDir = dir /\ today = now
    /\ failuresLeft = nf /\ changesLeft = nc /\ runsLeft = nr
    /\ user_cache = EmptyCache
    /\ org_cache = EmptyCache
    /\ group_ids_cache = NoGroupIds
    /\ pc = "idle"
    /\ group_ids = {}
    /\ week_range = <<0, 0>> /\ alltime_range = <<0, 0>>
    /\ f_start = 0 /\ f_end = 0 /\ page = 0 /\ all_tickets = <<>>
    /\ week_filtered = <<>> /\ week_beta = <<>> /\ week_beta_details = <<>>
    /\ alltime_filtered = <<>> /\ alltime_beta = <<>>
    /\ alltime_beta_details = <<>>
    /\ filtered = <<>> /\ beta = <<>>
    /\ ei = 0 /\ weekly_ranges = <<>> /\ wi = 0 /\ weekly_data = <<>>
    /\ report = <<>> /\ calls = <<>>

\* send_weekly_summary.main before its first statement; m_pc is "off" in a
\* process that runs update_dashboard alone
MailStart(at, test) ==
    /\ m_pc = at
    /\ test_mode = test
    /\ service = FALSE
    /\ data = <<>> /\ subject = <<>>
    /\ si = 0 /\ sent = <<>>
    /\ all_success = TRUE
    /\ m_result = <<>>

\* update_dashboard run as the main program
Start(st, dir, now, nf, nc, nr) ==
    EngineStart(st, dir, now, nf, nc, nr) /\ MailStart("off", FALSE)

\* stores enumerated ticket by ticket, under every date and directory
InitSmall ==
    \E st \in SmallStores, dir \in GroupDirs, now \in Todays :
        Start(st, dir, now, MaxFailures, 0, 1)

\* the end-to-end scenario, with upstream creations and repeated invocations
InitScenario ==
    \E dir \in GroupDirs \cup {TwoGroupsDir}, now \in {35, 38} :
        Start(ScenarioStore, dir, now, MaxFailures, MaxStoreChanges, MaxRuns)

\* stores of whole pages in the release week, with one upstream creation
InitPaged ==
    \E n \in PagedSizes, dir \in GroupDirs :
        Start(PagedStore(n), dir, 22, MaxFailures, 1, 1)

Init == InitSmall \/ InitScenario \/ InitPaged

\* ------------------------------------------------------------------------
\* get_ticket_data, one action per request and per loop turn
\* ------------------------------------------------------------------------
\* variant: the accumulator survives from one invocation to the next
BeginFetch_KeepsList(start, end) ==
    /\ f_start' = start
    /\ f_end' = end
    /\ page' = 1
    /\ all_tickets' = all_tickets

\* fetch_tickets_for_range(start, end, ...) is entered: lines 148-152
BeginFetch(start, end) ==
    /\ f_start' = start
    /\ f_end' = end
    /\ page' = 1
    /\ all_tickets' = <<>>

\* variant: get_group_ids trusts the cache variable without the None test
GroupsCallNeeded_Never(cache) == FALSE

\* get_group_ids must ask the API: the cache still holds None
GroupsCallNeeded(cache) == ~cache.set

\* Lines 200-208 up to the first search request: get_group_ids (one
\* groups.json request unless the cache is set), get_week_range, and the entry
\* of the week's fetch.
ResolveGroups ==
    /\ pc = "idle"
    /\ runsLeft > 0
    /\ \E ok \in BOOLEAN :
        LET needed == GroupsCallNeeded(group_ids_cache)
            result == ZendeskRequest(ok, groupsDir)
            ids == IF needed THEN GroupIdsOf(Get(result, <<>>))
                   ELSE group_ids_cache.val
        IN  /\ needed \/ ok
            /\ Cost(ok) <= failuresLeft
            /\ failuresLeft' = failuresLeft - Cost(ok)
            /\ group_ids_cache' = [set |-> TRUE, val |-> ids]
            /\ group_ids' = Range(ids)
            /\ calls' = IF needed THEN <<Call("groups", 0, 0, 0, ok, Len(ids))>> ELSE <<>>
    /\ runsLeft' = runsLeft - 1
    /\ week_range' = WeekRange(today)
    /\ BeginFetch(WeekRange(today)[1], WeekRange(today)[2])
    /\ pc' = "week_fetch"
    /\ week_filtered' = <<>> /\ week_beta' = <<>> /\ week_beta_details' = <<>>
    /\ alltime_filtered' = <<>> /\ alltime_beta' = <<>>
    /\ alltime_beta_details' = <<>>
    /\ alltime_range' = <<0, 0>>
    /\ filtered' = <<>> /\ beta' = <<>>
    /\ ei' = 0 /\ weekly_ranges' = <<>> /\ wi' = 0 /\ weekly_data' = <<>>
    /\ report' = <<>>
    /\ UNCHANGED <<envVars, changesLeft, user_cache, org_cache, mailVars>>

\* one history entry with numbers: lines 237-247
NumericEntry(wr, filt, bt) ==
    [start |-> wr.start, end |-> wr.end, total |-> Len(filt),
     beta |-> Len(bt), percentage |-> Percentage(Len(bt), Len(filt))]

\* One turn of the pagination loop, lines 153-161, and, when the loop is
\* left, the filtering and classification of lines 165-176 and the caller's
\* assignment of the returned pair.
FetchPage ==
    /\ pc \in {"week_fetch", "alltime_fetch", "hist_fetch"}
    /\ \E ok \in BOOLEAN :
        LET result == ZendeskRequest(ok, SearchPage(store, f_start, f_end, page))
            tickets == Get(result, <<>>)
            all == all_tickets \o tickets
            filt == ApplyFilter(all, group_ids)
            bt == BetaTickets(filt)
        IN  /\ Cost(ok) <= failuresLeft
            /\ failuresLeft' = failuresLeft - Cost(ok)
            /\ calls' = Append(calls, Call("search", f_start, f_end, page, ok,
                                         Len(tickets)))
            /\ all_tickets' = all
            /\ IF NextPageWanted(tickets)
               THEN /\ page' = page + 1
                    /\ UNCHANGED <<pc, weekVars, alltimeVars, histVars, ei>>
               ELSE /\ page' = page
                    /\ CASE pc = "week_fetch" ->
                              /\ week_filtered' = filt
                              /\ week_beta' = bt
                              /\ week_beta_details' = <<>>
                              /\ ei' = 1
                              /\ pc' = "week_enrich"
                              /\ UNCHANGED <<alltimeVars, histVars>>
                         [] pc = "alltime_fetch" ->
                              /\ alltime_filtered' = filt
                              /\ alltime_beta' = bt
                              /\ alltime_beta_details' = <<>>
                              /\ ei' = 1
                              /\ pc' = "alltime_enrich"
                              /\ UNCHANGED <<weekVars, histVars>>
                         [] pc = "hist_fetch" ->
                              /\ filtered' = filt
                              /\ beta' = bt
                              /\ weekly_data' =
                                    Append(weekly_data,
                                           NumericEntry(weekly_ranges[wi], filt, bt))
                              /\ wi' = wi + 1
                              /\ pc' = "history"
                              /\ UNCHANGED <<weekVars, alltimeVars, ei, weekly_ranges>>
    /\ UNCHANGED <<envVars, changesLeft, runsLeft, cacheVars, group_ids,
                   week_range, alltime_range, f_start, f_end, report, mailVars>>

\* ------------------------------------------------------------------------
\* Entity resolver and enrichment
\* ------------------------------------------------------------------------
CachePut(cache, id, name) ==
    [x \in DOMAIN cache \cup {id} |-> IF x = id THEN name ELSE cache[x]]

\* variant: the cache is not consulted before the request
LookupNeeded_Uncached(id, cache) == ~Falsy(id)

\* get_user_name / get_org_name reach their zendesk_request line: the id is
\* truthy and not a key of the cache
LookupNeeded(id, cache) == ~Falsy(id) /\ id \notin DOMAIN cache

\* variant: a failed lookup yields str(None) instead of the default
GetUserName_NoDefault(user_id, cache, ok) ==
    IF Falsy(user_id) THEN "Unknown"
    ELSE IF user_id \in DOMAIN cache THEN cache[user_id]
    ELSE IF ok THEN UserName(user_id) ELSE "None"

\* get_user_name(user_id), the request answering ok or failing
GetUserName(user_id, cache, ok) ==
    IF Falsy(user_id) THEN "Unknown"
    ELSE IF user_id \in DOMAIN cache THEN cache[user_id]
    ELSE Get(ZendeskRequest(ok, UserName(user_id)), "Unknown")

\* get_org_name(org_id)
GetOrgName(org_id, cache, ok) ==
    IF Falsy(org_id) THEN "No Account"
    ELSE IF org_id \in DOMAIN cache THEN cache[org_id]
    ELSE Get(ZendeskRequest(ok, OrgName(org_id)), "No Account")

\* the cache after the lookup: written on the request path only
CacheAfter(id, cache, name) ==
    IF LookupNeeded(id, cache) THEN CachePut(cache, id, name) ELSE cache

\* variant: every ticket of the filtered list is enriched
EnrichList_AllFiltered ==
    IF pc = "week_enrich" THEN week_filtered ELSE alltime_filtered

\* the tickets enrich_tickets is walking
EnrichList == IF pc = "week_enrich" THEN week_beta ELSE alltime_beta

\* One turn of the loop of enrich_tickets, lines 183-194: the requester
\* lookup, then the organization lookup, then the detail record.
EnrichTicket ==
    /\ pc \in {"week_enrich", "alltime_enrich"}
    /\ ei <= Len(EnrichList)
    /\ \E okU \in BOOLEAN, okO \in BOOLEAN :
        LET ticket == EnrichList[ei]
            uid == ticket.requester_id
            oid == ticket.organization_id
            callU == LookupNeeded(uid, user_cache)
            callO == LookupNeeded(oid, org_cache)
            requester == GetUserName(uid, user_cache, okU)
            account == GetOrgName(oid, org_cache, okO)
            detail == [id |-> ticket.id,
                       requester |-> requester,
                       account |-> account,
                       beta_tags |-> BetaTagsOnTicket(ticket),
                       all_tags |-> ticket.tags,
                       created |-> ticket.created]
        IN  /\ callU \/ okU
            /\ callO \/ okO
            /\ Cost(okU) + Cost(okO) <= failuresLeft
            /\ failuresLeft' = failuresLeft - Cost(okU) - Cost(okO)
            /\ user_cache' = CacheAfter(uid, user_cache, requester)
            /\ org_cache' = CacheAfter(oid, org_cache, account)
            /\ calls' = calls
                        \o (IF callU THEN <<Call("users", uid, 0, 0, okU, 0)>> ELSE <<>>)
                        \o (IF callO THEN <<Call("organizations", oid, 0, 0, okO, 0)>>
                            ELSE <<>>)
            /\ IF pc = "week_enrich"
               THEN /\ week_beta_details' = Append(week_beta_details, detail)
                    /\ UNCHANGED alltime_beta_details
               ELSE /\ alltime_beta_details' = Append(alltime_beta_details, detail)
                    /\ UNCHANGED week_beta_details
    /\ ei' = ei + 1
    /\ UNCHANGED <<envVars, changesLeft, runsLeft, group_ids_cache, pc, group_ids,
                   week_range, alltime_range, fetchVars, week_filtered, week_beta,
                   alltime_filtered, alltime_beta, histVars, report, mailVars>>

\* enrich_tickets returns.  After the week: get_alltime_range and the entry of
\* the all-time fetch (lines 212-214).  After all-time: get_weekly_ranges and
\* the entry of the history loop (lines 219-221).
EnrichReturn ==
    /\ pc \in {"week_enrich", "alltime_enrich"}
    /\ ei > Len(EnrichList)
    /\ IF pc = "week_enrich"
       THEN /\ alltime_range' = AlltimeRange(today)
            /\ BeginFetch(AlltimeRange(today)[1], AlltimeRange(today)[2])
            /\ pc' = "alltime_fetch"
            /\ UNCHANGED <<weekly_ranges, wi, weekly_data>>
       ELSE /\ weekly_ranges' = WeeklyRanges(today)
            /\ wi' = 1
            /\ weekly_data' = <<>>
            /\ pc' = "history"
            /\ UNCHANGED <<alltime_range, fetchVars>>
    /\ UNCHANGED <<envVars, budgetVars, cacheVars, group_ids, week_range,
                   weekVars, alltimeVars, filtered, beta, ei, report, calls,
                   mailVars>>

\* a future week's entry: lines 226-233
PlaceholderEntry(wr) ==
    [start |-> wr.start, end |-> wr.end, total |-> NULL, beta |-> NULL,
     percentage |-> NULL]

\* Head of the history loop, lines 222-236: a future week gets its placeholder
\* at once, any other week enters its fetch; past the last week the loop ends.
HistoryWeek ==
    /\ pc = "history"
    /\ IF wi <= Len(weekly_ranges)
       THEN IF weekly_ranges[wi].is_future
            THEN /\ weekly_data' =
                        Append(weekly_data, PlaceholderEntry(weekly_ranges[wi]))
                 /\ wi' = wi + 1
                 /\ UNCHANGED <<pc, fetchVars>>
            ELSE /\ BeginFetch(weekly_ranges[wi].start, weekly_ranges[wi].end)
                 /\ pc' = "hist_fetch"
                 /\ UNCHANGED <<weekly_data, wi>>
       ELSE /\ pc' = "views"
            /\ UNCHANGED <<weekly_data, wi, fetchVars>>
    /\ UNCHANGED <<envVars, budgetVars, cacheVars, group_ids, week_range,
                   alltime_range, weekVars, alltimeVars, filtered, beta, ei,
                   weekly_ranges, report, calls, mailVars>>

\* variant: the two counts are stored under each other's key
Metrics_Swapped(filt, bt, details, range) ==
    [total |-> Len(bt), beta |-> Len(filt),
     percentage |-> Percentage(Len(bt), Len(filt)),
     start_date |-> range[1], end_date |-> range[2],
     beta_tickets |-> details]

\* a 'week' / 'alltime' record of the report: lines 269-284
Metrics(filt, bt, details, range) ==
    [total |-> Len(filt), beta |-> Len(bt),
     percentage |-> Percentage(Len(bt), Len(filt)),
     start_date |-> range[1], end_date |-> range[2],
     beta_tickets |-> details]

\* outcomes of the optional Help Center source: gmail_fetch not importable,
\* no data in the mailbox, an exception, a view count
ViewsOutcomes == {"unavailable", "nodata", "raises", "views"}

\* variant: the views default to 0 instead of None
HelpCenterViews_ZeroDefault(outcome) == IF outcome = "views" THEN 1234 ELSE 0

HelpCenterViews(outcome) == IF outcome = "views" THEN 1234 ELSE NULL

\* the call of fetch_help_center_views as the log records it: none when
\* gmail_fetch could not be imported, failed when it raised, and the number
\* of view counts it delivered
ViewsCall(outcome) ==
    IF outcome = "unavailable" THEN <<>>
    ELSE <<Call("views", 0, 0, 0, outcome # "raises",
                IF outcome = "views" THEN 1 ELSE 0)>>

\* Lines 249-288: the counts, the optional Help Center views and the returned
\* dict ('updated' is a timestamp and is left out).
Return ==
    /\ pc = "views"
    /\ \E outcome \in ViewsOutcomes :
        /\ report' = << [week |-> Metrics(week_filtered, week_beta,
                                          week_beta_details, week_range),
                         alltime |-> Metrics(alltime_filtered, alltime_beta,
                                             alltime_beta_details,
                                             alltime_range),
                         history |-> weekly_data,
                         help_center_views |-> HelpCenterViews(outcome)] >>
        /\ calls' = calls \o ViewsCall(outcome)
    /\ pc' = "idle"
    /\ UNCHANGED <<envVars, budgetVars, cacheVars, group_ids, week_range,
                   alltime_range, fetchVars, weekVars, alltimeVars, histVars,
                   ei, mailVars>>

\* ------------------------------------------------------------------------
\* Environment: a ticket is created upstream while the engine runs
\* ------------------------------------------------------------------------
\* The store is read by search requests only, so a creation at any other
\* moment is seen exactly as one just before the next search request: the
\* action is taken while a fetch is under way.  The new ticket lands before
\* or after the tickets already listed.
CreateTicket ==
    /\ changesLeft > 0
    /\ pc \in {"week_fetch", "alltime_fetch", "hist_fetch"}
    /\ \E first \in BOOLEAN :
        LET t == Ticket(900 + changesLeft, 11, <<"ux_login">>, 502, NULL, today)
        IN  store' = IF first THEN <<t>> \o store ELSE Append(store, t)
    /\ changesLeft' = changesLeft - 1
    /\ UNCHANGED <<groupsDir, today, failuresLeft, runsLeft, cacheVars, pc,
                   group_ids, week_range, alltime_range, fetchVars, weekVars,
                   alltimeVars, histVars, ei, report, calls, mailVars>>

Next ==
    \/ ResolveGroups
    \/ FetchPage
    \/ EnrichTicket
    \/ EnrichReturn
    \/ HistoryWeek
    \/ Return
    \/ CreateTicket

Spec == Init /\ [][Next]_vars

\* The engine is one sequential thread that runs to completion: a step that
\* is enabled is eventually taken.  Progress is checked over the end-to-end
\* scenario and the stores of whole pages.
PagedInit == InitScenario \/ InitPaged

PagedFairSpec == PagedInit /\ [][Next]_vars /\ WF_vars(Next)

\* ------------------------------------------------------------------------
\* send_weekly_summary.py
\* ------------------------------------------------------------------------
SUMMARY_RECIPIENTS == <<"gtm-weekly", "lucas">>
FULL_RECIPIENTS == <<"support-internal">>
TEST_RECIPIENT == "support-internal"

\* days of the months of 2026
MonthLength == <<31, 28, 31, 30, 31, 30, 31, 31, 30, 31, 30, 31>>

RECURSIVE MonthDayFrom(_, _)
MonthDayFrom(m, d) ==
    IF d < MonthLength[m] THEN <<m, d + 1>>
    ELSE MonthDayFrom(m + 1, d - MonthLength[m])

\* the calendar date <<year, month, day>> of a day number, from December 2025
\* to the end of 2026
DateOf(d) ==
    IF d < 0 THEN <<2025, 12, 32 + d>>
    ELSE <<2026>> \o MonthDayFrom(1, d)

\* strftime('%b %d') keeps month and day; strftime('%b %d, %Y') the year too
StrfMonthDay(d) == <<DateOf(d)[2], DateOf(d)[3]>>
StrfMonthDayYear(d) == <<DateOf(d)[2], DateOf(d)[3], DateOf(d)[1]>>

\* get_week_dates, lines 58-67
WeekDates(now) ==
    LET days_since_monday == IF Weekday(now) = 0 THEN 7 ELSE Weekday(now)
        last_monday == now - days_since_monday
        last_sunday == last_monday + 6
    IN  <<StrfMonthDay(last_monday), StrfMonthDayYear(last_sunday)>>

\* variant: the placeholder carries None like a future week's entry
PlaceholderData_Nulls ==
    [week |-> [beta |-> NULL, percentage |-> NULL, beta_tickets |-> <<>>],
     alltime |-> [beta |-> NULL, percentage |-> NULL]]

\* the dict main falls back to when the fetch raised: lines 275-278
PlaceholderData ==
    [week |-> [beta |-> 0, percentage |-> 0, beta_tickets |-> <<>>],
     alltime |-> [beta |-> 0, percentage |-> 0]]

\* tags_summary, lines 286-290: occurrences of each tag over the week's
\* matched tickets
TagsSummary(tickets) ==
    LET seen == UNION {Range(tickets[i].beta_tags) : i \in DOMAIN tickets}
    IN  [tag \in seen |->
            Cardinality({i \in DOMAIN tickets :
                            tag \in Range(tickets[i].beta_tags)})]

\* what create_summary_email is given, lines 300-307, with the list its
\* feedback digest is made of
EmailContent(d, week_tickets) ==
    [week_beta |-> d.week.beta, week_pct |-> d.week.percentage,
     alltime_beta |-> d.alltime.beta, alltime_pct |-> d.alltime.percentage,
     tags_summary |-> TagsSummary(d.week.beta_tickets),
     digest |-> week_tickets]

\* the summary is made with week_tickets=None, which 'week_tickets or []'
\* (line 170) turns into the empty list
SummaryContent(d) == EmailContent(d, <<>>)
FullContent(d) == EmailContent(d, d.week.beta_tickets)

\* variant: the flag follows the latest send alone
AllSuccessAfter_LatestOnly(flag, ok) == ok

\* lines 322-323 and 330-331: a failed send clears the flag
AllSuccessAfter(flag, ok) == flag /\ ok

\* send_email, lines 230-254: one send call; an exception of the Gmail API
\* is caught and reported as False
SendEmail(to_email, content, ok) ==
    [to |-> to_email, subject |-> subject, content |-> content, ok |-> ok]

\* Lines 261-265: get_gmail_service returns None when a credential is missing
GetGmailService ==
    /\ m_pc = "start"
    /\ \E created \in BOOLEAN :
        /\ service' = created
        /\ IF created
           THEN m_pc' = "import" /\ UNCHANGED m_result
           ELSE m_pc' = "done" /\ m_result' = <<FALSE>>
    /\ UNCHANGED <<envVars, budgetVars, cacheVars, pc, group_ids, week_range,
                   alltime_range, fetchVars, weekVars, alltimeVars, histVars,
                   ei, report, calls, test_mode, data, subject, si, sent,
                   all_success>>

\* Lines 268-271: update_dashboard is imported and get_ticket_data is called;
\* the engine's actions run it
CallGetTicketData ==
    /\ m_pc = "import"
    /\ m_pc' = "fetching"
    /\ runsLeft' = runsLeft + 1
    /\ UNCHANGED <<envVars, failuresLeft, changesLeft, cacheVars, pc, group_ids,
                   week_range, alltime_range, fetchVars, weekVars, alltimeVars,
                   histVars, ei, report, calls, test_mode, service, data, subject, si,
                   sent, all_success, m_result>>

\* Lines 272-278: the import or the call raised; the placeholder replaces the
\* data
FetchRaises ==
    /\ m_pc = "import"
    /\ data' = <<PlaceholderData>>
    /\ m_pc' = "compose"
    /\ UNCHANGED <<envVars, budgetVars, cacheVars, pc, group_ids, week_range,
                   alltime_range, fetchVars, weekVars, alltimeVars, histVars,
                   ei, report, calls, test_mode, service, subject, si, sent,
                   all_success, m_result>>

\* Line 271: get_ticket_data has returned its dict
GotData ==
    /\ m_pc = "fetching"
    /\ pc = "idle" /\ report # <<>>
    /\ data' = report
    /\ m_pc' = "compose"
    /\ UNCHANGED <<envVars, budgetVars, cacheVars, pc, group_ids, week_range,
                   alltime_range, fetchVars, weekVars, alltimeVars, histVars,
                   ei, report, calls, test_mode, service, subject, si, sent,
                   all_success, m_result>>

\* Lines 280-309: the metrics are read, the subject is made from
\* get_week_dates, and all_success is set
Compose ==
    /\ m_pc = "compose"
    /\ subject' = WeekDates(today)
    /\ all_success' = TRUE
    /\ si' = 1
    /\ m_pc' = IF test_mode THEN "send_test" ELSE "send_summary"
    /\ UNCHANGED <<envVars, budgetVars, cacheVars, pc, group_ids, week_range,
                   alltime_range, fetchVars, weekVars, alltimeVars, histVars,
                   ei, report, calls, test_mode, service, data, sent, m_result>>

\* Lines 312-315: test mode sends the full content once and returns
SendTest ==
    /\ m_pc = "send_test"
    /\ \E ok \in BOOLEAN :
        /\ sent' = Append(sent, SendEmail(TEST_RECIPIENT, FullContent(data[1]), ok))
        /\ m_result' = <<ok>>
    /\ m_pc' = "done"
    /\ UNCHANGED <<envVars, budgetVars, cacheVars, pc, group_ids, week_range,
                   alltime_range, fetchVars, weekVars, alltimeVars, histVars,
                   ei, report, calls, test_mode, service, data, subject, si,
                   all_success>>

\* Lines 318-323: one turn of the loop over SUMMARY_RECIPIENTS, or its end
SendSummary ==
    /\ m_pc = "send_summary"
    /\ IF si <= Len(SUMMARY_RECIPIENTS)
       THEN /\ \E ok \in BOOLEAN :
                /\ sent' = Append(sent, SendEmail(SUMMARY_RECIPIENTS[si],
                                                  SummaryContent(data[1]), ok))
                /\ all_success' = AllSuccessAfter(all_success, ok)
            /\ si' = si + 1
            /\ UNCHANGED m_pc
       ELSE /\ m_pc' = "send_full"
            /\ si' = 1
            /\ UNCHANGED <<sent, all_success>>
    /\ UNCHANGED <<envVars, budgetVars, cacheVars, pc, group_ids, week_range,
                   alltime_range, fetchVars, weekVars, alltimeVars, histVars,
                   ei, report, calls, test_mode, service, data, subject, m_result>>

\* Lines 326-333: one turn of the loop over FULL_RECIPIENTS, or the return
SendFull ==
    /\ m_pc = "send_full"
    /\ IF si <= Len(FULL_RECIPIENTS)
       THEN /\ \E ok \in BOOLEAN :
                /\ sent' = Append(sent, SendEmail(FULL_RECIPIENTS[si],
                                                  FullContent(data[1]), ok))
                /\ all_success' = AllSuccessAfter(all_success, ok)
            /\ si' = si + 1
            /\ UNCHANGED <<m_pc, m_result>>
       ELSE /\ m_pc' = "done"
            /\ m_result' = <<all_success>>
            /\ UNCHANGED <<sent, all_success, si>>
    /\ UNCHANGED <<envVars, budgetVars, cacheVars, pc, group_ids, week_range,
                   alltime_range, fetchVars, weekVars, alltimeVars, histVars,
                   ei, report, calls, test_mode, service, data, subject>>

\* days on which the summary is run: every weekday of the week of Feb 2
SummaryDays == 32..38

\* the end-to-end store, main entered in either mode
SummaryInit ==
    \E dir \in GroupDirs, now \in SummaryDays, test \in BOOLEAN :
        /\ EngineStart(ScenarioStore, dir, now, MaxFailures, MaxStoreChanges, 0)
        /\ MailStart("start", test)

SummaryNext ==
    \/ GetGmailService
    \/ CallGetTicketData
    \/ FetchRaises
    \/ ResolveGroups
    \/ FetchPage
    \/ EnrichTicket
    \/ EnrichReturn
    \/ HistoryWeek
    \/ Return
    \/ CreateTicket
    \/ GotData
    \/ Compose
    \/ SendTest
    \/ SendSummary
    \/ SendFull

SummarySpec == SummaryInit /\ [][SummaryNext]_vars

\* ------------------------------------------------------------------------
\* Vocabulary of the properties
\* ------------------------------------------------------------------------
FetchStates == {"week_fetch", "alltime_fetch", "hist_fetch"}

\* the latest fetch_tickets_for_range has returned; fetchVars hold its final
\* values
FetchReturned == pc \notin FetchStates /\ page >= 1

\* no ticket was created upstream since the start
StoreUnchanged == \A i \in DOMAIN store : store[i].id < 900

\* position in calls of the first request of the latest fetch
FetchFirst ==
    CHOOSE j \in DOMAIN calls :
        /\ calls[j].ep = "search" /\ calls[j].page = 1
        /\ \A k \in DOMAIN calls :
               (k > j /\ calls[k].ep = "search") => calls[k].page > 1

\* the requests of the latest fetch, once it has returned
FetchCalls == SubSeq(calls, FetchFirst, FetchFirst + page - 1)

FetchAllOk == \A i \in DOMAIN FetchCalls : FetchCalls[i].ok

\* what the store holds for the window of the latest fetch
WindowResults == SearchResults(store, f_start, f_end)

\* C1: pagination completeness.  When a fetch has returned, none of its
\* requests failed and the store did not change, the accumulated list is the
\* whole result set of the window: the concatenation, in page order, of the
\* k full pages and the shorter page after them, whatever k is.
C1_PaginationComplete ==
    (FetchReturned /\ FetchAllOk /\ StoreUnchanged) =>
        /\ all_tickets = WindowResults
        /\ page = (Len(WindowResults) \div PER_PAGE) + 1

\* a fetch over two full pages and a third, shorter, non-empty one returned
\* all of them
C1_Witness ==
    /\ FetchReturned /\ FetchAllOk /\ StoreUnchanged
    /\ page = 3
    /\ Len(all_tickets) > 2 * PER_PAGE
    /\ all_tickets = WindowResults

\* the search requests of the log follow the loop: a fetch opens with page 1,
\* page p > 1 is asked right after page p - 1 of the same window answered
\* with a full page, and nothing is asked after a page that was short, empty
\* or failed
PagesConsecutive ==
    \A j \in DOMAIN calls :
        calls[j].ep = "search" =>
            /\ calls[j].page >= 1
            /\ calls[j].n <= PER_PAGE
            /\ calls[j].page > 1 =>
                   /\ j > 1
                   /\ calls[j - 1].ep = "search"
                   /\ calls[j - 1].a = calls[j].a /\ calls[j - 1].b = calls[j].b
                   /\ calls[j - 1].page = calls[j].page - 1
                   /\ calls[j - 1].ok
                   /\ calls[j - 1].n = PER_PAGE
            /\ (j < Len(calls) /\ calls[j].n = PER_PAGE) =>
                   /\ calls[j + 1].ep = "search"
                   /\ calls[j + 1].page = calls[j].page + 1

\* a returned fetch made exactly the requests 1..page and its last answer
\* was short, empty or failed; a running fetch has made 1..page-1, all full
PagesStopAtShort ==
    /\ FetchReturned =>
           /\ \A i \in 1..page : FetchCalls[i].ep = "search" /\ FetchCalls[i].page = i
           /\ FetchCalls[page].n < PER_PAGE
           /\ Len(calls) > FetchFirst + page - 1 =>
                  ~(calls[FetchFirst + page].ep = "search"
                    /\ calls[FetchFirst + page].page > 1)
    /\ pc \in FetchStates =>
           IF page = 1
           THEN calls = <<>> \/ calls[Len(calls)].ep # "search"
                \/ calls[Len(calls)].n < PER_PAGE
           ELSE /\ calls[Len(calls)].ep = "search"
                /\ calls[Len(calls)].page = page - 1
                /\ calls[Len(calls)].n = PER_PAGE

\* C2: the pagination loop terminates: pages 1, 2, 3, ... are requested
\* consecutively, each once; the loop stops at the first page that is empty or
\* shorter than 100 and requests nothing after it; every fetch that is
\* entered returns.
C2_PaginationTerminates ==
    /\ [](PagesConsecutive /\ PagesStopAtShort)
    /\ (pc \in FetchStates) ~> FetchReturned

\* a fetch over exactly two full pages stopped at the empty third page
C2_Witness ==
    /\ FetchReturned
    /\ page = 3
    /\ FetchCalls[3].ok /\ FetchCalls[3].n = 0
    /\ Len(all_tickets) = 2 * PER_PAGE

\* positions in calls of the first request of each fetch, and the n-th of
\* them: the week's fetch is the first, the all-time fetch the second, the
\* fetched history weeks follow in order
FirstCalls == {j \in DOMAIN calls : calls[j].ep = "search" /\ calls[j].page = 1}

NthFetch(n) ==
    CHOOSE j \in FirstCalls : Cardinality({k \in FirstCalls : k <= j}) = n

\* the pair the latest returned fetch handed to its caller
LastReturned ==
    CASE pc = "week_enrich" -> <<week_filtered, week_beta>>
      [] pc = "alltime_enrich" -> <<alltime_filtered, alltime_beta>>
      [] OTHER -> IF Cardinality(FirstCalls) > 2
                  THEN <<filtered, beta>>
                  ELSE <<alltime_filtered, alltime_beta>>

ZeroMetrics(m) == m.total = 0 /\ m.beta = 0 /\ m.percentage = 0

ReportMade == pc = "idle" /\ report # <<>>

\* history entries that carry numbers
NumericEntries(history) == SelectSeq(history, LAMBDA e : e.total # NULL)

\* a fetch whose request for page k failed returned the k - 1 full pages it
\* had, and an empty pair when k = 1
FailedPageKeepsEarlier ==
    (FetchReturned /\ ~FetchCalls[page].ok) =>
        /\ Len(all_tickets) = (page - 1) * PER_PAGE
        /\ StoreUnchanged =>
               all_tickets = SubSeq(WindowResults, 1, (page - 1) * PER_PAGE)
        /\ page = 1 => LastReturned = << <<>>, <<>> >>

\* the invocation is left only with a report; the report has an entry for
\* every week of the horizon, and a window whose first request failed reports
\* zeros
FailedWindowReportsZero ==
    /\ (pc = "idle" /\ calls # <<>>) => report # <<>>
    /\ ReportMade =>
        LET r == report[1]
            nums == NumericEntries(r.history)
        IN  /\ Len(r.history) = Len(WeeklyRanges(today))
            /\ Cardinality(FirstCalls) = 2 + Len(nums)
            /\ ~calls[NthFetch(1)].ok => ZeroMetrics(r.week)
            /\ ~calls[NthFetch(2)].ok => ZeroMetrics(r.alltime)
            /\ \A i \in DOMAIN nums :
                   ~calls[NthFetch(2 + i)].ok => ZeroMetrics(nums[i])

\* C3: a failed request for page k of a window's search raises nothing; the
\* fetch goes on with exactly the tickets of pages 1..k-1 (none when k = 1, so
\* the window's total, beta and percentage are 0), and the run goes on to the
\* remaining windows and returns a report.
C3_FailedPageDegrades == FailedPageKeepsEarlier /\ FailedWindowReportsZero

\* a report was returned although page 2 of the week's search failed; the
\* week's numbers come from page 1
C3_Witness ==
    /\ ReportMade
    /\ calls[NthFetch(1) + 1].ep = "search"
    /\ calls[NthFetch(1) + 1].page = 2
    /\ ~calls[NthFetch(1) + 1].ok
    /\ report[1].week.total > 0

\* the records of the report that carry numbers: week, alltime and the
\* history entries that are not placeholders
NumericRecords(r) ==
    {r.week, r.alltime} \cup Range(NumericEntries(r.history))

CountsOrdered(m) == 0 <= m.beta /\ m.beta <= m.total

\* C4: in every report each record that carries numbers has
\* 0 <= beta <= total, whatever the tickets, the group ids and the failures;
\* the same holds of the history entries while they are being built.
C4_MatchedWithinTotal ==
    /\ \A m \in Range(NumericEntries(weekly_data)) : CountsOrdered(m)
    /\ ReportMade => \A m \in NumericRecords(report[1]) : CountsOrdered(m)

\* a report whose week counts some but not all tickets as matched, after a
\* failed request
C4_Witness ==
    /\ ReportMade
    /\ 0 < report[1].week.beta
    /\ report[1].week.beta < report[1].week.total
    /\ \E j \in DOMAIN calls : ~calls[j].ok

Abs(x) == IF x < 0 THEN -x ELSE x

\* percentage (in tenths) is the tenth nearest to beta / total * 100, and 0
\* for an empty window
PercentageRounded(m) ==
    /\ m.total = 0 => m.percentage = 0
    /\ m.total > 0 =>
           2 * Abs(m.percentage * m.total - 1000 * m.beta) <= m.total
    /\ 0 <= m.percentage /\ m.percentage <= 1000
    /\ (m.total = 3 /\ m.beta = 2) => m.percentage = 667

\* C5: every numeric record has percentage = beta / total * 100 rounded to
\* one decimal when total > 0 and 0 when total = 0, so within [0, 100];
\* total = 3 and beta = 2 give 66.7.
C5_PercentageSemantics ==
    /\ \A m \in Range(NumericEntries(weekly_data)) : PercentageRounded(m)
    /\ ReportMade => \A m \in NumericRecords(report[1]) : PercentageRounded(m)

\* the end-to-end scenario: three tickets in the week, two matched, 66.7
C5_Witness ==
    /\ ReportMade
    /\ report[1].week.total = 3
    /\ report[1].week.beta = 2
    /\ report[1].week.percentage = 667
    /\ \E m \in NumericRecords(report[1]) : m.total = 0 /\ m.percentage = 0

\* number of tickets the requests of one fetch delivered, counted from the
\* fetch's first request at position first
RECURSIVE DeliveredFrom(_, _)
DeliveredFrom(j, first) ==
    IF \/ j > Len(calls)
       \/ calls[j].ep # "search"
       \/ (j > first /\ calls[j].page = 1)
    THEN 0
    ELSE calls[j].n + DeliveredFrom(j + 1, first)

\* the unfiltered fetch count of the n-th fetch of the run
FetchedCount(n) == DeliveredFrom(NthFetch(n), NthFetch(n))

\* every total of the report is the unfiltered count of its window's fetch
TotalsUnfiltered ==
    LET r == report[1]
        nums == NumericEntries(r.history)
    IN  /\ r.week.total = FetchedCount(1)
        /\ r.alltime.total = FetchedCount(2)
        /\ \A i \in DOMAIN nums : nums[i].total = FetchedCount(2 + i)

\* the groups.json request of the run was answered
GroupsAnswered ==
    calls # <<>> /\ calls[1].ep = "groups" /\ calls[1].ok

\* C6: group filter fail-open.  When no configured team name resolves to a
\* group id, so that the resolved set is empty, every fetch returns its
\* fetched list unchanged as the filtered list, and every total of the report
\* is the unfiltered fetch count.
C6_FilterFailOpen ==
    group_ids = {} =>
        /\ FetchReturned => LastReturned[1] = all_tickets
        /\ ReportMade => TotalsUnfiltered

\* the directory was served and names no target group; the week's total
\* counts a ticket of a foreign group or of none
C6_Witness ==
    /\ ReportMade
    /\ GroupsAnswered
    /\ group_ids = {}
    /\ report[1].week.total > 0
    /\ \E i \in DOMAIN week_filtered : week_filtered[i].group_id \in {12, NULL}

\* ids of the directory's groups that carry a target name
ResolvedIds ==
    {groupsDir[i].id : i \in {k \in DOMAIN groupsDir :
                                 groupsDir[k].name \in TARGET_GROUPS}}

\* C7: with a non-empty resolved set the filtered list is exactly the
\* subsequence, in order, of the fetched tickets whose group id is in the
\* set; tickets with a null or absent group id and tickets of other groups
\* are in neither the filtered nor the matched list.
C7_FilterKeepsMembers ==
    (FetchReturned /\ group_ids # {}) =>
        /\ LastReturned[1] =
               SelectSeq(all_tickets, LAMBDA t : t.group_id \in ResolvedIds)
        /\ \A t \in Range(LastReturned[1]) \cup Range(LastReturned[2]) :
               t.group_id \notin {NULL, MISSING} /\ t.group_id \in ResolvedIds
        /\ Range(LastReturned[2]) \subseteq Range(LastReturned[1])

\* a fetch brought a ticket without group and the filter kept only part of
\* the list
C7_Witness ==
    /\ FetchReturned
    /\ group_ids # {}
    /\ \E i \in DOMAIN all_tickets : all_tickets[i].group_id \in {NULL, MISSING}
    /\ \E i \in DOMAIN all_tickets : all_tickets[i].group_id = 12
    /\ LastReturned[1] # <<>>
    /\ Len(LastReturned[1]) < Len(all_tickets)

\* the groups.json request of the run failed
GroupsFailed ==
    calls # <<>> /\ calls[1].ep = "groups" /\ ~calls[1].ok

\* C8: a failed groups.json request is not fatal.  get_group_ids yields the
\* empty list, the run goes on to a report, and every window of the run is
\* computed unfiltered, never with every ticket excluded.
C8_GroupsFailureFailsOpen ==
    GroupsFailed =>
        /\ group_ids = {}
        /\ group_ids_cache = [set |-> TRUE, val |-> <<>>]
        /\ FetchReturned => LastReturned[1] = all_tickets
        /\ pc = "idle" => report # <<>>
        /\ ReportMade =>
               /\ TotalsUnfiltered
               /\ Len(report[1].history) = Len(WeeklyRanges(today))

\* groups.json failed under a directory that names target groups, and the
\* report still counts the three tickets of the week
C8_Witness ==
    /\ ReportMade
    /\ GroupsFailed
    /\ ResolvedIds # {}
    /\ report[1].week.total = 3

LookupEndpoints == {"groups", "users", "organizations"}

\* no lookup key is requested twice by one invocation
NoDuplicateLookups ==
    \A i \in DOMAIN calls : \A j \in DOMAIN calls :
        (i < j /\ calls[i].ep \in LookupEndpoints) =>
            ~(calls[j].ep = calls[i].ep /\ calls[j].a = calls[i].a)

\* a cache entry, once written, is never written again
CacheWriteOnce ==
    /\ \A id \in DOMAIN user_cache :
           id \in DOMAIN user_cache' /\ user_cache'[id] = user_cache[id]
    /\ \A id \in DOMAIN org_cache :
           id \in DOMAIN org_cache' /\ org_cache'[id] = org_cache[id]
    /\ group_ids_cache.set => group_ids_cache' = group_ids_cache

\* C9: within one run each lookup key is resolved by at most one request
\* (users/<id>.json once per requester id, organizations/<id>.json once per
\* organization id, groups.json once), whether the request succeeded or
\* failed and however many tickets and windows carry the key, and a cache
\* entry is written at most once.
C9_OneLookupPerKey == []NoDuplicateLookups /\ [][CacheWriteOnce]_vars

\* a requester carried by a ticket of the week and of the all-time list was
\* asked for once, the request failed, and the default stayed in the cache
C9_Witness ==
    /\ ReportMade
    /\ \E j \in DOMAIN calls :
           /\ calls[j].ep = "users" /\ ~calls[j].ok
           /\ \E i \in DOMAIN week_beta : week_beta[i].requester_id = calls[j].a
           /\ \E i \in DOMAIN alltime_beta :
                  alltime_beta[i].requester_id = calls[j].a
           /\ calls[j].a \in DOMAIN user_cache
           /\ user_cache[calls[j].a] = "Unknown"

\* the step is one turn of the enrichment loop
IsEnrichStep ==
    /\ pc \in {"week_enrich", "alltime_enrich"}
    /\ ei <= Len(EnrichList)
    /\ ei' = ei + 1

\* the requests the step appended to the log
NewCalls == SubSeq(calls', Len(calls) + 1, Len(calls'))

\* the detail record the step appended
NewDetail ==
    IF pc = "week_enrich"
    THEN week_beta_details'[Len(week_beta_details')]
    ELSE alltime_beta_details'[Len(alltime_beta_details')]

\* a turn for a ticket without requester id answers "Unknown", one for a
\* ticket without organization id answers "No Account"; neither asks the API
\* nor touches the lookup's cache
NullIdNoCall ==
    IsEnrichStep =>
        LET t == EnrichList[ei]
            noUser == t.requester_id \in {NULL, MISSING}
            noOrg == t.organization_id \in {NULL, MISSING}
        IN  /\ noUser =>
                   /\ NewDetail.requester = "Unknown"
                   /\ user_cache' = user_cache
                   /\ \A i \in DOMAIN NewCalls : NewCalls[i].ep # "users"
            /\ noOrg =>
                   /\ NewDetail.account = "No Account"
                   /\ org_cache' = org_cache
                   /\ \A i \in DOMAIN NewCalls : NewCalls[i].ep # "organizations"
            /\ (noUser /\ noOrg) =>
                   /\ calls' = calls
                   /\ failuresLeft' = failuresLeft

\* C10: for a missing or null requester id get_user_name returns "Unknown",
\* for a missing or null organization id get_org_name returns "No Account";
\* neither issues a request and both caches stay as they were.
C10_NullIdDefaults == [][NullIdNoCall]_vars

\* the week's first matched ticket had neither requester nor organization:
\* its detail carries both defaults, no lookup was requested and both caches
\* are still empty
C10_Witness ==
    /\ pc = "week_enrich"
    /\ ei = 2
    /\ week_beta[1].requester_id = NULL
    /\ week_beta[1].organization_id = MISSING
    /\ week_beta_details[1].requester = "Unknown"
    /\ week_beta_details[1].account = "No Account"
    /\ \A j \in DOMAIN calls : calls[j].ep \notin {"users", "organizations"}
    /\ user_cache = EmptyCache
    /\ org_cache = EmptyCache

\* a turn of the enrichment loop whose lookup failed still appends its
\* detail record, with the default in place of the name
FailedLookupDefaults ==
    IsEnrichStep =>
        /\ IF pc = "week_enrich"
           THEN Len(week_beta_details') = Len(week_beta_details) + 1
           ELSE Len(alltime_beta_details') = Len(alltime_beta_details) + 1
        /\ NewDetail.id = EnrichList[ei].id
        /\ \A i \in DOMAIN NewCalls :
               /\ (NewCalls[i].ep = "users" /\ ~NewCalls[i].ok) =>
                      NewDetail.requester = "Unknown"
               /\ (NewCalls[i].ep = "organizations" /\ ~NewCalls[i].ok) =>
                      NewDetail.account = "No Account"

\* the report lists one detail record per matched ticket of the week and of
\* the all-time window, in order
DetailsComplete ==
    ReportMade =>
        /\ [i \in DOMAIN report[1].week.beta_tickets |->
               report[1].week.beta_tickets[i].id]
             = [i \in DOMAIN week_beta |-> week_beta[i].id]
        /\ [i \in DOMAIN report[1].alltime.beta_tickets |->
               report[1].alltime.beta_tickets[i].id]
             = [i \in DOMAIN alltime_beta |-> alltime_beta[i].id]

\* C11: when the lookup request for a requester or an organization id fails,
\* the resolver returns "Unknown" / "No Account" instead of raising, the
\* enriched ticket is still produced with that default, and the report is
\* still returned with every matched ticket's detail.
C11_FailedLookupDegrades ==
    /\ [][FailedLookupDefaults]_vars
    /\ [](DetailsComplete /\ ((pc = "idle" /\ calls # <<>>) => report # <<>>))

\* a report whose week lists a ticket under "Unknown" because the request for
\* its requester failed
C11_Witness ==
    /\ ReportMade
    /\ \E j \in DOMAIN calls : \E i \in DOMAIN week_beta :
           /\ calls[j].ep = "users" /\ ~calls[j].ok
           /\ week_beta[i].requester_id = calls[j].a
           /\ report[1].week.beta_tickets[i].requester = "Unknown"

\* C12: a ticket is in the matched list of a window exactly when it is in the
\* window's group-filtered list and one of its tags is a tracked tag; a ticket
\* without tags or with untracked tags only is never matched, and the matched
\* list keeps the order of the filtered list.
C12_MatchedIffTagged ==
    FetchReturned =>
        /\ LastReturned[2] =
               SelectSeq(LastReturned[1],
                         LAMBDA t : Range(t.tags) \cap Range(BETA_TAGS) # {})
        /\ \A t \in Range(LastReturned[2]) :
               \E i \in DOMAIN t.tags : t.tags[i] \in Range(BETA_TAGS)

\* a fetch whose filtered list holds a ticket with untracked tags only, left
\* out, and a ticket whose tracked tag is not its first tag, matched
C12_Witness ==
    /\ FetchReturned
    /\ \E i \in DOMAIN LastReturned[1] :
           /\ LastReturned[1][i].tags # <<>>
           /\ Range(LastReturned[1][i].tags) \cap Range(BETA_TAGS) = {}
    /\ \E i \in DOMAIN LastReturned[2] :
           LastReturned[2][i].tags[1] \notin Range(BETA_TAGS)

\* the tracked tags of a tag list, in the order of BETA_TAGS
InTaxonomyOrder(tags) == SelectSeq(BETA_TAGS, LAMBDA tag : tag \in Range(tags))

\* every detail record built so far
AllDetails == Range(week_beta_details) \cup Range(alltime_beta_details)

\* C13: the beta_tags list of every enriched ticket holds exactly the
\* ticket's tracked tags, listed in the order of BETA_TAGS and not in the
\* ticket's own order: tags [ux_login, ux_assets] give [ux_assets, ux_login].
C13_TagsInTaxonomyOrder ==
    \A d \in AllDetails : d.beta_tags = InTaxonomyOrder(d.all_tags)

\* the history loop has its list of weeks
HistoryEntered == pc \in {"history", "hist_fetch", "views"} \/ ReportMade

\* C14: get_weekly_ranges yields contiguous, non-overlapping windows with
\* strictly increasing starts: every start is a Monday, the first is the
\* Monday on or before the release date, each next window starts 7 days
\* later, the day after the Sunday that ends its predecessor, and the last
\* window is the last one whose Monday is on or before the horizon end.
C14_WeeklyWindowsContiguous ==
    HistoryEntered =>
        /\ weekly_ranges # <<>>
        /\ \A i \in DOMAIN weekly_ranges :
               /\ Weekday(weekly_ranges[i].start) = 0
               /\ weekly_ranges[i].end = weekly_ranges[i].start + 6
               /\ i > 1 =>
                      /\ weekly_ranges[i].start = weekly_ranges[i - 1].start + 7
                      /\ weekly_ranges[i].start = weekly_ranges[i - 1].end + 1
        /\ weekly_ranges[1].start <= BETA_RELEASE_DATE
        /\ BETA_RELEASE_DATE < weekly_ranges[1].start + 7
        /\ weekly_ranges[Len(weekly_ranges)].start <= HORIZON_END
        /\ HORIZON_END < weekly_ranges[Len(weekly_ranges)].start + 7

\* the history loop holds the seven weeks from Jan 19 to Mar 8
C14_Witness ==
    /\ pc = "history"
    /\ Len(weekly_ranges) = 7
    /\ weekly_ranges[1].start = 18
    /\ weekly_ranges[7].end = 66

\* C15: the end date of the last history window that is not a future one
\* never exceeds today: the window that contains today ends at today instead
\* of at its Sunday.
C15_LastRealEndCapped ==
    \A i \in DOMAIN weekly_data :
        weekly_data[i].total # NULL => weekly_data[i].end <= today

IsPlaceholder(e) == e.total = NULL /\ e.beta = NULL /\ e.percentage = NULL

IsNumeric(e) == e.total # NULL /\ e.beta # NULL /\ e.percentage # NULL

\* the weeks of the horizon that have begun
StartedWeeks == {i \in DOMAIN weekly_ranges : weekly_ranges[i].start <= today}

\* C16: a history window that starts after today yields a placeholder with
\* total, beta and percentage null and no search request is issued for it;
\* every window that starts on or before today is fetched and carries
\* numbers.
C16_FutureWeeksNotFetched ==
    /\ \A i \in DOMAIN weekly_data :
           IF weekly_ranges[i].start > today
           THEN IsPlaceholder(weekly_data[i])
           ELSE IsNumeric(weekly_data[i])
    /\ \A j \in DOMAIN calls : \A i \in DOMAIN weekly_ranges :
           (calls[j].ep = "search" /\ weekly_ranges[i].start > today) =>
               ~(calls[j].a = weekly_ranges[i].start
                 /\ calls[j].b = weekly_ranges[i].end)
    /\ ReportMade =>
           /\ Cardinality(FirstCalls) = 2 + Cardinality(StartedWeeks)
           /\ \A i \in StartedWeeks :
                  /\ calls[NthFetch(2 + i)].a = weekly_ranges[i].start
                  /\ calls[NthFetch(2 + i)].b = weekly_ranges[i].end

\* a report of Feb 5: the week of Feb 2 was fetched and has numbers, the week
\* of Feb 9 is a placeholder
C16_Witness ==
    /\ ReportMade
    /\ today = 35
    /\ IsNumeric(report[1].history[3])
    /\ report[1].history[3].total > 0
    /\ IsPlaceholder(report[1].history[4])

\* C17: the history list is in chronological order: one entry per generated
\* window, each starting before the next, and every entry with numbers
\* before every placeholder.
C17_HistoryChronological ==
    /\ Len(weekly_data) <= Len(weekly_ranges)
    /\ \A i \in DOMAIN weekly_data :
           /\ weekly_data[i].start = weekly_ranges[i].start
           /\ weekly_data[i].end = weekly_ranges[i].end
           /\ i > 1 => weekly_data[i - 1].start < weekly_data[i].start
           /\ i > 1 => (weekly_data[i - 1].total = NULL
                           => weekly_data[i].total = NULL)
    /\ ReportMade =>
           /\ report[1].history = weekly_data
           /\ Len(weekly_data) = Len(weekly_ranges)

\* a report whose history has three entries with numbers followed by four
\* placeholders
C17_Witness ==
    /\ ReportMade
    /\ Len(report[1].history) = 7
    /\ Len(NumericEntries(report[1].history)) = 3
    /\ report[1].history[3].total # NULL
    /\ report[1].history[4].total = NULL

EnrichEndpoints == {"users", "organizations"}

\* ids the matched tickets of the week and of the all-time window carry
MatchedRequesters ==
    {t.requester_id : t \in Range(week_beta) \cup Range(alltime_beta)}

MatchedOrganizations ==
    {t.organization_id : t \in Range(week_beta) \cup Range(alltime_beta)}

\* C18: enrichment is applied to the matched tickets of the week and of the
\* all-time window only: every users/<id>.json and organizations/<id>.json
\* request of a run is for an id carried by a ticket of one of the two
\* matched lists, and none is issued once the history windows are processed.
C18_EnrichMatchedOnly ==
    \A j \in DOMAIN calls :
        /\ calls[j].ep = "users" => calls[j].a \in MatchedRequesters
        /\ calls[j].ep = "organizations" => calls[j].a \in MatchedOrganizations
        /\ (calls[j].ep \in EnrichEndpoints /\ Cardinality(FirstCalls) >= 3) =>
               j < NthFetch(3)

\* a report after fetched history weeks: requester 501 of a matched ticket was
\* looked up, requester 502 of an unmatched ticket of the same window was not
C18_Witness ==
    /\ ReportMade
    /\ Cardinality(FirstCalls) >= 3
    /\ \E j \in DOMAIN calls : calls[j].ep = "users" /\ calls[j].a = 501
    /\ \E i \in DOMAIN week_filtered : week_filtered[i].requester_id = 502
    /\ \A j \in DOMAIN calls : ~(calls[j].ep = "users" /\ calls[j].a = 502)

\* number of fetches begun before position j of the log
FetchesBefore(j) == Cardinality({k \in FirstCalls : k < j})

\* groups.json is the first request of its run; a window is classified and
\* its details are built only after its fetch; every enrichment request lies
\* behind all search requests of the week's or the all-time fetch and in
\* front of the next fetch
CallsInDependencyOrder ==
    /\ \A j \in DOMAIN calls : calls[j].ep = "groups" => j = 1
    /\ pc = "week_fetch" =>
           /\ week_beta = <<>> /\ week_beta_details = <<>>
           /\ \A j \in DOMAIN calls : calls[j].ep \notin EnrichEndpoints
    /\ pc = "alltime_fetch" =>
           /\ alltime_beta = <<>> /\ alltime_beta_details = <<>>
           /\ \A j \in DOMAIN calls :
                  calls[j].ep \in EnrichEndpoints => FetchesBefore(j) = 1
    /\ Len(week_beta_details) <= Len(week_beta)
    /\ Len(alltime_beta_details) <= Len(alltime_beta)
    /\ \A j \in DOMAIN calls :
           calls[j].ep \in EnrichEndpoints =>
               /\ FetchesBefore(j) \in {1, 2}
               /\ \A k \in DOMAIN calls :
                      (k > j /\ calls[k].ep = "search" /\ calls[k].page > 1) =>
                          \E f \in FirstCalls : j < f /\ f < k

\* the step that enters get_ticket_data asks for groups.json first unless the
\* cache is already set
GroupsBeforeSearch ==
    (pc = "idle" /\ pc' = "week_fetch") =>
        IF group_ids_cache.set
        THEN calls' = <<>>
        ELSE Len(calls') = 1 /\ calls'[1].ep = "groups"

\* C19: calls happen in dependency order: the groups.json request precedes
\* every search request, and for the week and the all-time window all search
\* pages are fetched before the window's tickets are classified and
\* classification is complete before any enrichment lookup of the window.
C19_DependencyOrder ==
    []CallsInDependencyOrder /\ [][GroupsBeforeSearch]_vars

\* a finished run: groups.json, the week's search, a lookup for the week, the
\* all-time search, a lookup for the all-time window, then history
C19_Witness ==
    /\ ReportMade
    /\ calls[1].ep = "groups"
    /\ calls[2].ep = "search"
    /\ Cardinality(FirstCalls) >= 3
    /\ \E j \in DOMAIN calls :
           calls[j].ep \in EnrichEndpoints /\ FetchesBefore(j) = 1
    /\ \E j \in DOMAIN calls :
           calls[j].ep \in EnrichEndpoints /\ FetchesBefore(j) = 2

\* fetch_help_center_views was called and delivered a view count
ViewsServed ==
    /\ calls # <<>>
    /\ calls[Len(calls)].ep = "views"
    /\ calls[Len(calls)].ok
    /\ calls[Len(calls)].n = 1

\* the week, alltime and history values of the report are those the run had
\* computed before the Help Center source was asked
ReportFromWindows ==
    LET r == report[1]
    IN  /\ r.week.total = Len(week_filtered)
        /\ r.week.beta = Len(week_beta)
        /\ r.week.beta_tickets = week_beta_details
        /\ r.week.start_date = week_range[1] /\ r.week.end_date = week_range[2]
        /\ r.alltime.total = Len(alltime_filtered)
        /\ r.alltime.beta = Len(alltime_beta)
        /\ r.alltime.beta_tickets = alltime_beta_details
        /\ r.alltime.start_date = alltime_range[1]
        /\ r.alltime.end_date = alltime_range[2]
        /\ r.history = weekly_data
        /\ Len(r.history) = Len(WeeklyRanges(today))

\* C20: when the Help Center source cannot be imported, returns nothing or
\* raises, get_ticket_data still returns a complete report: week, alltime and
\* history are what they are otherwise and help_center_views is null.
C20_ViewsOptional ==
    /\ (pc = "idle" /\ calls # <<>>) => report # <<>>
    /\ ReportMade =>
           /\ ReportFromWindows
           /\ ~ViewsServed => report[1].help_center_views = NULL

\* the Help Center source raised; the report of the end-to-end scenario has
\* its numbers and no view count
C20_Witness ==
    /\ ReportMade
    /\ calls[Len(calls)].ep = "views"
    /\ ~calls[Len(calls)].ok
    /\ report[1].help_center_views = NULL
    /\ report[1].week.total = 3
    /\ report[1].week.beta = 2

IdsOf(tickets) == {tickets[i].id : i \in DOMAIN tickets}

\* the search requests of the n-th fetch of the run
CallsOfFetch(n) ==
    {j \in DOMAIN calls :
        /\ calls[j].ep = "search"
        /\ Cardinality({k \in FirstCalls : k <= j}) = n}

\* the history loop has just fetched the window the week's fetch had: the
\* same dates, the same group ids (group_ids is set once per run), and
\* every request of either fetch answered
SameWindowFetchedTwice ==
    /\ pc = "history"
    /\ wi > 1
    /\ ~weekly_ranges[wi - 1].is_future
    /\ weekly_ranges[wi - 1].start = week_range[1]
    /\ weekly_ranges[wi - 1].end = week_range[2]
    /\ \A j \in CallsOfFetch(1) \cup CallsOfFetch(Cardinality(FirstCalls)) :
           calls[j].ok

\* C21: fetch idempotence.  Two invocations of fetch_tickets_for_range with
\* the same window and group ids, against an unmodified store and without
\* failed requests, return the same set of ticket ids as filtered result and
\* the same set as matched result.
C21_FetchIdempotent ==
    (SameWindowFetchedTwice /\ StoreUnchanged) =>
        /\ IdsOf(filtered) = IdsOf(week_filtered)
        /\ IdsOf(beta) = IdsOf(week_beta)

\* on a Sunday the week's window is a history window; both fetches returned
\* the same tickets, some matched and some not
C21_Witness ==
    /\ SameWindowFetchedTwice /\ StoreUnchanged
    /\ week_beta # <<>>
    /\ Len(week_beta) < Len(week_filtered)
    /\ IdsOf(filtered) = IdsOf(week_filtered)
    /\ IdsOf(beta) = IdsOf(week_beta)
    /\ Cardinality(FirstCalls) > 2

\* no ticket id occurs twice in the list
DistinctIds(tickets) ==
    \A i, j \in DOMAIN tickets : tickets[i].id = tickets[j].id => i = j

\* C22: window metrics are de-duplicated.  Whatever upstream creations fall
\* between the page requests of a fetch, the accumulated list holds each
\* ticket id at most once, and so do the filtered and matched lists the
\* counts are taken from.
C22_NoDuplicateTickets ==
    /\ DistinctIds(all_tickets)
    /\ DistinctIds(week_filtered) /\ DistinctIds(week_beta)
    /\ DistinctIds(alltime_filtered) /\ DistinctIds(alltime_beta)
    /\ DistinctIds(filtered) /\ DistinctIds(beta)

\* C23: every date window handed to the fetcher has start_date <= end_date,
\* whatever today is: the week's window, the all-time window and each fetched
\* history window, in the fetch's arguments and in the search requests made.
C23_WindowsOrdered ==
    /\ pc \in FetchStates => f_start <= f_end
    /\ \A j \in DOMAIN calls : calls[j].ep = "search" => calls[j].a <= calls[j].b

\* the step that enters get_ticket_data finds the three caches empty
CachesEmptyAtEntry ==
    (pc = "idle" /\ pc' = "week_fetch") =>
        /\ user_cache = EmptyCache
        /\ org_cache = EmptyCache
        /\ ~group_ids_cache.set

\* C24: the lookup caches do not persist across runs.  At the start of every
\* invocation of get_ticket_data the requester-name cache, the
\* organization-name cache and the group-id cache are empty, so every
\* invocation asks for groups.json itself; an entry is added only by the
\* first lookup of its key.
C24_CachesPerRun ==
    /\ [][CachesEmptyAtEntry]_vars
    /\ [](pc # "idle" => (calls # <<>> /\ calls[1].ep = "groups"))
    /\ [][CacheWriteOnce]_vars

\* the Monday of the calendar week before the week that contains today
PreviousMonday == today - Weekday(today) - 7

\* C25: get_week_dates returns last week's range on every day of the week:
\* the Monday and the Sunday of the calendar week preceding the week that
\* contains today.
C25_LastWeekDates ==
    subject # <<>> =>
        subject = <<StrfMonthDay(PreviousMonday),
                    StrfMonthDayYear(PreviousMonday + 6)>>

\* the addresses of the send attempts made so far, in order
SentTo == [i \in DOMAIN sent |-> sent[i].to]

IsPrefix(a, b) == Len(a) <= Len(b) /\ a = SubSeq(b, 1, Len(a))

\* main has returned after it had a Gmail service
MainSentAndReturned == m_pc = "done" /\ service

EngineUntouched ==
    /\ pc = "idle" /\ calls = <<>> /\ report = <<>>
    /\ user_cache = EmptyCache /\ org_cache = EmptyCache
    /\ ~group_ids_cache.set

\* main is past its try block and the fetch raised
FetchRaised == service /\ m_pc \notin {"start", "import", "fetching"} /\ report = <<>>

\* C27: if the Gmail service cannot be created main returns False without
\* fetching data or attempting any send; if the service exists and fetching
\* the data raises, main goes on with placeholder data (week and all-time
\* beta 0, percentage 0, no tickets) and still attempts every send.
C27_ServiceAndFetchFailures ==
    /\ (~service /\ m_pc # "start") =>
           /\ m_pc = "done" /\ m_result = <<FALSE>>
           /\ sent = <<>> /\ data = <<>>
           /\ EngineUntouched
    /\ FetchRaised =>
           /\ data # <<>>
           /\ data[1].week.beta = 0 /\ data[1].week.percentage = 0
           /\ data[1].week.beta_tickets = <<>>
           /\ data[1].alltime.beta = 0 /\ data[1].alltime.percentage = 0
           /\ \A i \in DOMAIN sent :
                  /\ sent[i].content.week_beta = 0
                  /\ sent[i].content.week_pct = 0
                  /\ sent[i].content.alltime_beta = 0
                  /\ sent[i].content.alltime_pct = 0
                  /\ sent[i].content.digest = <<>>
           /\ m_pc = "done" =>
                  /\ m_result # <<>>
                  /\ Len(sent) = IF test_mode THEN 1
                                 ELSE Len(SUMMARY_RECIPIENTS) + Len(FULL_RECIPIENTS)

\* the fetch raised and all three mails were attempted with zeros, one of
\* them failing
C27_Witness ==
    /\ FetchRaised /\ m_pc = "done" /\ ~test_mode
    /\ Len(sent) = 3
    /\ ~sent[2].ok
    /\ sent[3].content.week_beta = 0
    /\ EngineUntouched

\* the store did not change, every search request of the run was answered
\* and no ticket is dated after today
QuietRun ==
    /\ StoreUnchanged
    /\ \A j \in DOMAIN calls : calls[j].ep = "search" => calls[j].ok
    /\ \A i \in DOMAIN store : store[i].created <= today

\* C28: cross-window consistency.  Over an unchanged store, without failed
\* requests and with no ticket dated after today, the history entry whose
\* window contains today reports the total and beta count of the report's
\* week metrics, and the week's counts do not exceed the all-time counts
\* whenever this week's Monday is on or after the release date.
C28_CrossWindowConsistent ==
    (ReportMade /\ QuietRun) =>
        LET r == report[1]
        IN  /\ \A i \in DOMAIN r.history :
                   (r.history[i].start <= today /\ today <= r.history[i].end) =>
                       /\ r.history[i].total = r.week.total
                       /\ r.history[i].beta = r.week.beta
                       /\ r.history[i].percentage = r.week.percentage
            /\ today - Weekday(today) >= BETA_RELEASE_DATE =>
                   /\ r.week.total <= r.alltime.total
                   /\ r.week.beta <= r.alltime.beta

\* a Thursday inside the horizon: the entry of the week of Feb 2 and the
\* week metrics both count the one matched ticket of the week, the all-time
\* metrics count an earlier ticket too
C28_Witness ==
    /\ ReportMade /\ QuietRun
    /\ today = 35
    /\ \E i \in DOMAIN report[1].history :
           /\ report[1].history[i].start <= today
           /\ today <= report[1].history[i].end
           /\ report[1].history[i].total = 1
           /\ report[1].history[i].beta = 1
    /\ report[1].week.total = 1
    /\ report[1].alltime.total = 2

====
